---- MODULE Spec2Model ----
(***************************************************************************)
(* Patient healthcare assistant (app.py): a Flask application keeping a    *)
(* patient collection in one JSON document (patients.json) and an          *)
(* append-only alert log (alerts.log).                                     *)
(*                                                                         *)
(* Three specifications share the definitions below:                       *)
(*   Spec          every request handler runs to completion in one step    *)
(*                 (requests served one after the other);                  *)
(*   SpecConc      two handler threads interleave at their file            *)
(*                 operations (the development server is threaded), and a  *)
(*                 file operation may raise OSError;                       *)
(*   SpecClassify  assess_risk applied to a grid of inputs.                *)
(*                                                                         *)
(* Abstractions: the timestamp prefix of an alert line is left out (no     *)
(* property below reads it); a form value of a vitals field is the integer *)
(* its text denotes, or marked non-numeric; the JSON text of the document  *)
(* is represented by the mapping it encodes together with its length in    *)
(* characters, which is what decides the outcome of overlapping writes.    *)
(***************************************************************************)
EXTENDS Integers, Sequences, FiniteSets, TLC

VARIABLES
    file,      \* content of patients.json
    alerts,    \* lines of alerts.log, oldest first
    req,       \* per handler thread: the request it serves and its locals
    nreq,      \* number of requests received so far
    nwrites,   \* number of completed writes of patients.json (history)
    vit,       \* SpecClassify: the triple given to assess_risk
    tier       \* SpecClassify: the value assess_risk returned

vars == <<file, alerts, req, nreq, nwrites, vit, tier>>

---------------------------------------------------------------------------
(* Bounds *)

MaxSeqReq == 4      \* requests received in a behaviour of Spec
MaxConcReq == 3     \* requests received in a behaviour of SpecConc

---------------------------------------------------------------------------
(* Request inputs *)

Names == {"Alice", "Bob"}
Doctors == {"Dr. Smith", "Dr. Jones"}
Diseases == {"flu"}
TestsVals == {"cbc"}
\* raw text of the medicines field, one character per element
MedInputs == {<< >>, <<"a", ",", "b">>}

\* the vitals form: bp_sys, bp_dia, pulse, or some field that is no integer
VitalForms ==
    { [bp_sys |-> 110, bp_dia |-> 70, pulse |-> 60, numeric |-> TRUE],
      [bp_sys |-> 150, bp_dia |-> 70, pulse |-> 70, numeric |-> TRUE],
      [bp_sys |-> 170, bp_dia |-> 95, pulse |-> 80, numeric |-> TRUE],
      [bp_sys |-> 0, bp_dia |-> 0, pulse |-> 0, numeric |-> FALSE] }

AddForms ==
    [doctor : Doctors, disease : Diseases, medicines : MedInputs, tests : TestsVals]

\* the add forms submitted in SpecConc: texts of both lengths, one doctor
ConcAddForms == {f \in AddForms : f.doctor = "Dr. Smith"}

Threads == {1, 2}

---------------------------------------------------------------------------
(* assess_risk *)

\* variant: the HIGH thresholds taken as inclusive
assess_risk_inclusive(bp_sys, bp_dia, pulse) ==
    IF bp_sys >= 160 \/ bp_dia >= 100 \/ pulse >= 120
    THEN "HIGH"
    ELSE IF \/ (140 <= bp_sys /\ bp_sys <= 160)
            \/ (90 <= bp_dia /\ bp_dia <= 100)
            \/ (100 <= pulse /\ pulse <= 120)
         THEN "MEDIUM"
         ELSE "LOW"

assess_risk(bp_sys, bp_dia, pulse) ==
    IF bp_sys > 160 \/ bp_dia > 100 \/ pulse > 120
    THEN "HIGH"
    ELSE IF \/ (140 <= bp_sys /\ bp_sys <= 160)
            \/ (90 <= bp_dia /\ bp_dia <= 100)
            \/ (100 <= pulse /\ pulse <= 120)
         THEN "MEDIUM"
         ELSE "LOW"

---------------------------------------------------------------------------
(* str.split(",") *)

RECURSIVE SplitFrom(_, _, _)
\* the pieces of s between commas; cur is the piece being read, i the position
SplitFrom(s, i, cur) ==
    IF i > Len(s)
    THEN <<cur>>
    ELSE IF s[i] = ","
         THEN <<cur>> \o SplitFrom(s, i + 1, << >>)
         ELSE SplitFrom(s, i + 1, Append(cur, s[i]))

Split(s) == SplitFrom(s, 1, << >>)

---------------------------------------------------------------------------
(* The patient document and its JSON text length (json.dump, indent=4) *)

EmptyDoc == << >>

NewPatient(form) ==
    [doctor |-> form.doctor,
     disease |-> form.disease,
     medicines |-> Split(form.medicines),
     tests |-> form.tests,
     vitals |-> << >>]

\* variant: the two pressures passed to assess_risk in the wrong order
Reading_swapped(form) ==
    [bp_sys |-> form.bp_sys, bp_dia |-> form.bp_dia, pulse |-> form.pulse,
     risk |-> assess_risk(form.bp_dia, form.bp_sys, form.pulse)]

Reading(form) ==
    [bp_sys |-> form.bp_sys, bp_dia |-> form.bp_dia, pulse |-> form.pulse,
     risk |-> assess_risk(form.bp_sys, form.bp_dia, form.pulse)]

RECURSIVE Digits(_)
Digits(n) ==
    IF n < 0 THEN 1 + Digits(0 - n)
    ELSE IF n < 10 THEN 1 ELSE 1 + Digits(n \div 10)

\* a JSON string: the characters between two quotes
StrLen(s) == Len(s) + 2

\* one reading, nested three levels deep
ReadingLen(v) ==
    1 + (17 + 10 + Digits(v.bp_sys)) + 1
      + (17 + 10 + Digits(v.bp_dia)) + 1
      + (17 + 9 + Digits(v.pulse)) + 1
      + (17 + 8 + StrLen(v.risk))
      + 13 + 1

RECURSIVE ItemsLen(_, _)
\* the elements of a list nested two levels deep; lens holds their lengths
ItemsLen(lens, i) ==
    IF i > Len(lens) THEN 0
    ELSE 13 + lens[i] + (IF i < Len(lens) THEN 1 ELSE 0) + ItemsLen(lens, i + 1)

ListLen(lens) ==
    IF Len(lens) = 0 THEN 2 ELSE 1 + ItemsLen(lens, 1) + 9 + 1

PatientLen(p) ==
    1 + (9 + 10 + StrLen(p.doctor)) + 1
      + (9 + 11 + StrLen(p.disease)) + 1
      + (9 + 13 + ListLen([i \in 1..Len(p.medicines) |-> StrLen(p.medicines[i])])) + 1
      + (9 + 9 + StrLen(p.tests)) + 1
      + (9 + 10 + ListLen([i \in 1..Len(p.vitals) |-> ReadingLen(p.vitals[i])]))
      + 5 + 1

RECURSIVE EntriesLen(_, _)
EntriesLen(doc, names) ==
    IF names = {} THEN 0
    ELSE LET n == CHOOSE x \in names : TRUE
         IN  5 + StrLen(n) + 2 + PatientLen(doc[n])
               + (IF names = {n} THEN 0 ELSE 1)
               + EntriesLen(doc, names \ {n})

JsonLen(doc) ==
    IF DOMAIN doc = {} THEN 2 ELSE 1 + EntriesLen(doc, DOMAIN doc) + 1 + 1

---------------------------------------------------------------------------
(* patients.json as a file *)

\* kind: "absent" (no file), "empty" (opened for writing, nothing written),
\* "doc" (the JSON text of doc), "corrupt" (a JSON text followed by the tail
\* of a longer one); len is the length of the content
AbsentFile == [kind |-> "absent", doc |-> EmptyDoc, len |-> 0]

\* open(PATIENTS_FILE, "w"): creates the file or truncates it
Truncate(f) == [kind |-> "empty", doc |-> EmptyDoc, len |-> 0]

\* json.dump and close: the text is written from offset 0 of the file as it
\* is now; what another writer put beyond the text's end stays
WriteDoc(f, doc) ==
    IF JsonLen(doc) >= f.len
    THEN [kind |-> "doc", doc |-> doc, len |-> JsonLen(doc)]
    ELSE [kind |-> "corrupt", doc |-> EmptyDoc, len |-> f.len]

\* load_patients: {} without a file, the decoded document, or a decode error
load_patients(f) ==
    IF f.kind = "absent" THEN [ok |-> TRUE, doc |-> EmptyDoc]
    ELSE IF f.kind = "doc" THEN [ok |-> TRUE, doc |-> f.doc]
    ELSE [ok |-> FALSE, doc |-> EmptyDoc]

\* the line log_alert appends (after the timestamp), as its parts
AlertLine(name, doctor) ==
    <<"High Risk Alert for ", name, "! Notify Doctor: ", doctor>>

log_alert(log, line) == Append(log, line)

---------------------------------------------------------------------------
(* Request handlers, as steps of a thread *)

NoForm == [none |-> TRUE]

IdleReq ==
    [pc |-> "idle", kind |-> "none", name |-> "", form |-> NoForm,
     patients |-> EmptyDoc, risk |-> "none", err |-> "",
     loadVer |-> 0, writeVer |-> 0]

NewReq(kind, name, form) ==
    [IdleReq EXCEPT !.pc = "load", !.kind = kind, !.name = name, !.form = form]

Finished(rq) == rq.pc \in {"idle", "done", "failed"}

Fail(rq, e) == [rq EXCEPT !.pc = "failed", !.err = e]

\* index: the loaded mapping is rendered
index(rq, doc) == [rq EXCEPT !.patients = doc, !.pc = "done"]

\* variant: the new record is not merged into the loaded mapping
add_patient_fresh(rq, doc) ==
    [rq EXCEPT !.patients = (rq.name :> NewPatient(rq.form)),
               !.pc = "save_open"]

\* add_patient up to the call of save_patients
add_patient(rq, doc) ==
    [rq EXCEPT !.patients = (rq.name :> NewPatient(rq.form)) @@ doc,
               !.pc = "save_open"]

\* variant: a missing patient defaults to a record that has a vitals list
patient_details_fallback(rq, doc) ==
    IF ~rq.form.numeric
    THEN Fail([rq EXCEPT !.patients = doc], "ValueError")
    ELSE LET v == Reading(rq.form)
             old == IF rq.name \in DOMAIN doc
                    THEN doc[rq.name]
                    ELSE [doctor |-> "", disease |-> "", medicines |-> << >>,
                          tests |-> "", vitals |-> << >>]
             patient == [old EXCEPT !.vitals = Append(@, v)]
         IN  [rq EXCEPT !.patients = (rq.name :> patient) @@ doc,
                        !.risk = v.risk,
                        !.pc = IF v.risk = "HIGH" THEN "log" ELSE "save_open"]

\* variant: the alert is raised for every reading that is not LOW
patient_details_alertMedium(rq, doc) ==
    IF ~rq.form.numeric
    THEN Fail([rq EXCEPT !.patients = doc], "ValueError")
    ELSE IF rq.name \notin DOMAIN doc
    THEN Fail([rq EXCEPT !.patients = doc], "KeyError")
    ELSE LET v == Reading(rq.form)
             patient == [doc[rq.name] EXCEPT !.vitals = Append(@, v)]
         IN  [rq EXCEPT !.patients = (rq.name :> patient) @@ doc,
                        !.risk = v.risk,
                        !.pc = IF v.risk # "LOW" THEN "log" ELSE "save_open"]

\* patient_details (POST) up to the call of log_alert or save_patients
patient_details(rq, doc) ==
    IF ~rq.form.numeric
    THEN Fail([rq EXCEPT !.patients = doc], "ValueError")
    ELSE IF rq.name \notin DOMAIN doc
    THEN Fail([rq EXCEPT !.patients = doc], "KeyError")
    ELSE LET v == Reading(rq.form)
             patient == [doc[rq.name] EXCEPT !.vitals = Append(@, v)]
         IN  [rq EXCEPT !.patients = (rq.name :> patient) @@ doc,
                        !.risk = v.risk,
                        !.pc = IF v.risk = "HIGH" THEN "log" ELSE "save_open"]

\* A state of the files together with one thread's locals
St(f, a, w, rq) == [file |-> f, alerts |-> a, nwrites |-> w, rq |-> rq]

\* the handler reads patients.json and computes on what it read
StepLoad(st) ==
    LET got == load_patients(st.file)
        rq == [st.rq EXCEPT !.loadVer = st.nwrites]
    IN  IF ~got.ok
        THEN [st EXCEPT !.rq = Fail(rq, "JSONDecodeError")]
        ELSE [st EXCEPT !.rq =
                 CASE rq.kind = "index" -> index(rq, got.doc)
                   [] rq.kind = "add" -> add_patient(rq, got.doc)
                   [] rq.kind = "record" -> patient_details(rq, got.doc)]

\* log_alert(...) of patient_details
StepLog(st) ==
    [st EXCEPT !.alerts = log_alert(@, AlertLine(st.rq.name,
                                        st.rq.patients[st.rq.name].doctor)),
               !.rq = [@ EXCEPT !.pc = "save_open"]]

\* save_patients: open(..., "w")
StepSaveOpen(st) ==
    [st EXCEPT !.file = Truncate(@), !.rq = [@ EXCEPT !.pc = "save_write"]]

\* variant: the text never reaches the file opened for writing
StepSaveWrite_skip(st) ==
    [st EXCEPT !.nwrites = @ + 1,
               !.rq = [@ EXCEPT !.pc = "done", !.writeVer = st.nwrites + 1]]

\* save_patients: json.dump and close; the response follows
StepSaveWrite(st) ==
    [st EXCEPT !.file = WriteDoc(@, st.rq.patients),
               !.nwrites = @ + 1,
               !.rq = [@ EXCEPT !.pc = "done", !.writeVer = st.nwrites + 1]]

StepOf(st) ==
    CASE st.rq.pc = "load" -> StepLoad(st)
      [] st.rq.pc = "log" -> StepLog(st)
      [] st.rq.pc = "save_open" -> StepSaveOpen(st)
      [] st.rq.pc = "save_write" -> StepSaveWrite(st)

RECURSIVE Run(_)
\* the handler from its current position to its response
Run(st) == IF Finished(st.rq) THEN st ELSE Run(StepOf(st))

---------------------------------------------------------------------------
(* Initial state *)

Init ==
    /\ file = AbsentFile
    /\ alerts = << >>
    /\ req = [t \in Threads |-> IdleReq]
    /\ nreq = 0
    /\ nwrites = 0
    /\ vit = <<0, 0, 0>>
    /\ tier = "none"

Install(t, st) ==
    /\ file' = st.file
    /\ alerts' = st.alerts
    /\ nwrites' = st.nwrites
    /\ req' = [req EXCEPT ![t] = st.rq]

---------------------------------------------------------------------------
(* Spec: requests served one after the other, each in one step *)

\* the response to request rq: the handler run from its first line to its last
Respond(rq) ==
    /\ nreq' = nreq + 1
    /\ Install(1, Run(St(file, alerts, nwrites, rq)))
    /\ UNCHANGED <<vit, tier>>

\* GET /
Index ==
    /\ nreq < MaxSeqReq
    /\ Respond(NewReq("index", "", NoForm))

\* POST /add
AddPatient ==
    \E n \in Names, f \in AddForms :
        /\ nreq < MaxSeqReq
        /\ Respond(NewReq("add", n, f))

\* POST /patient/<name>
RecordVitals ==
    \E n \in Names, f \in VitalForms :
        /\ nreq < MaxSeqReq
        /\ Respond(NewReq("record", n, f))

Next == Index \/ AddPatient \/ RecordVitals

Spec == Init /\ [][Next]_vars

---------------------------------------------------------------------------
(* SpecConc: two threads, interleaved at their file operations *)

Receive(t) ==
    /\ nreq < MaxConcReq
    /\ Finished(req[t])
    /\ nreq' = nreq + 1
    /\ \E rq \in {NewReq("index", "", NoForm)}
               \cup {NewReq("add", n, f) : n \in Names, f \in ConcAddForms}
               \cup {NewReq("record", n, f) : n \in Names, f \in VitalForms} :
           req' = [req EXCEPT ![t] = rq]
    /\ UNCHANGED <<file, alerts, nwrites, vit, tier>>

\* thread t performs the file operation it stands at
Advance(t) ==
    /\ Install(t, StepOf(St(file, alerts, nwrites, req[t])))
    /\ UNCHANGED <<nreq, vit, tier>>

Load(t) ==
    /\ req[t].pc = "load"
    /\ Advance(t)

Log(t) ==
    /\ req[t].pc = "log"
    /\ Advance(t)

SaveOpen(t) ==
    /\ req[t].pc = "save_open"
    /\ Advance(t)

SaveWrite(t) ==
    /\ req[t].pc = "save_write"
    /\ Advance(t)

\* open() in log_alert or save_patients raises OSError: the handler ends
\* with what it has written so far
IOError(t) ==
    /\ req[t].pc \in {"log", "save_open"}
    /\ req' = [req EXCEPT ![t] =
                  Fail(@, IF @.pc = "log" THEN "OSError: alerts.log"
                                          ELSE "OSError: patients.json")]
    /\ UNCHANGED <<file, alerts, nwrites, nreq, vit, tier>>

NextConc ==
    \E t \in Threads :
        Receive(t) \/ Load(t) \/ Log(t) \/ SaveOpen(t) \/ SaveWrite(t) \/ IOError(t)

SpecConc == Init /\ [][NextConc]_vars

---------------------------------------------------------------------------
(* SpecClassify: assess_risk on a grid of inputs around its thresholds *)

SysVals == {-5, 0, 139, 140, 150, 160, 161}
DiaVals == {-5, 0, 89, 90, 95, 100, 101}
PulseVals == {-5, 0, 99, 100, 110, 120, 121}

InitClassify ==
    /\ file = AbsentFile
    /\ alerts = << >>
    /\ req = [t \in Threads |-> IdleReq]
    /\ nreq = 0
    /\ nwrites = 0
    /\ vit \in SysVals \X DiaVals \X PulseVals
    /\ tier = "none"

Classify ==
    /\ tier = "none"
    /\ tier' = assess_risk(vit[1], vit[2], vit[3])
    /\ UNCHANGED <<file, alerts, req, nreq, nwrites, vit>>

SpecClassify == InitClassify /\ [][Classify]_vars

---------------------------------------------------------------------------
(* Properties *)

StoredNames(f) == IF f.kind = "doc" THEN DOMAIN f.doc ELSE {}

VitalsOf(f, n) == IF n \in StoredNames(f) THEN f.doc[n].vitals ELSE << >>

IsPrefix(s1, s2) == Len(s1) <= Len(s2) /\ SubSeq(s2, 1, Len(s1)) = s1

Mentions(line, n) == \E i \in 1..Len(line) : line[i] = n

HighCount(f, n) == Cardinality({i \in 1..Len(VitalsOf(f, n)) : VitalsOf(f, n)[i].risk = "HIGH"})

AlertCount(log, n) == Cardinality({i \in 1..Len(log) : Mentions(log[i], n)})

\* in Spec, the step that serves a request of the given kind
Served(kind) == nreq' = nreq + 1 /\ req'[1].kind = kind

\* C1: after any sequence of add-patient and record-vitals operations, every
\* patient name has as many stored HIGH readings as alert lines mentioning it.
C1_AlertsMatchHighReadings ==
    \A n \in Names : HighCount(file, n) = AlertCount(alerts, n)

\* C2: the vitals stored for a name are append-only: across every operation
\* the sequence stored before is a prefix of the sequence stored after.
C2_VitalsAppendOnly ==
    [][\A n \in Names : IsPrefix(VitalsOf(file, n), VitalsOf(file', n))]_vars

\* C3: assess_risk is total and first-match-wins: HIGH iff a value exceeds
\* 160/100/120; otherwise MEDIUM iff a value lies in [140,160], [90,100] or
\* [100,120]; otherwise LOW.
C3_AssessRiskTiers ==
    tier # "none" =>
        LET high == vit[1] > 160 \/ vit[2] > 100 \/ vit[3] > 120
            medium == vit[1] \in 140..160 \/ vit[2] \in 90..100 \/ vit[3] \in 100..120
        IN  /\ tier \in {"HIGH", "MEDIUM", "LOW"}
            /\ (tier = "HIGH") <=> high
            /\ (tier = "MEDIUM") <=> (~high /\ medium)
            /\ (tier = "LOW") <=> (~high /\ ~medium)

\* C3 witness: a negative input together with the inclusive upper bounds.
C3_Witness == vit = <<160, -5, 120>> /\ tier = "MEDIUM"

\* C4: recording vitals for a name that is not in the store fails: no record
\* is created, patients.json is unchanged and no alert line is appended.
C4_MissingPatientFails ==
    [][(Served("record") /\ req'[1].name \notin StoredNames(file))
         => /\ req'[1].pc = "failed"
            /\ file' = file
            /\ alerts' = alerts]_vars

\* C4 witness: HIGH-risk vitals were posted for a name missing from an
\* existing store, and the request failed.
C4_Witness ==
    /\ req[1].kind = "record" /\ req[1].pc = "failed" /\ req[1].err = "KeyError"
    /\ req[1].form.bp_sys = 170
    /\ file.kind = "doc" /\ req[1].name \notin DOMAIN file.doc

\* both updates of s and t were computed from the same content of the file,
\* s saved first, t saved second, and nothing was written since
LoadedBeforeEitherSave(s, t) ==
    /\ s # t
    /\ req[s].pc = "done" /\ req[s].kind \in {"add", "record"}
    /\ req[t].pc = "done" /\ req[t].kind \in {"add", "record"}
    /\ req[s].name # req[t].name
    /\ req[s].loadVer = req[t].loadVer
    /\ req[s].writeVer = req[s].loadVer + 1
    /\ req[t].writeVer = req[s].loadVer + 2
    /\ nwrites = req[t].writeVer

AlertWritten(t) ==
    \/ req[t].pc \in {"save_open", "save_write", "done"}
    \/ req[t].pc = "failed" /\ req[t].err = "OSError: patients.json"

\* the reading of thread t's request is in patients.json
ReadingPersisted(t) ==
    LET n == req[t].name
        k == Len(req[t].patients[n].vitals)
    IN  /\ file.kind = "doc"
        /\ n \in DOMAIN file.doc
        /\ Len(file.doc[n].vitals) >= k
        /\ file.doc[n].vitals[k] = req[t].patients[n].vitals[k]

\* C6: record-vitals takes effect in a single step: once the operation has
\* ended, by its response or by a failure, the alert line of a HIGH reading
\* is in the log exactly if the reading is in patients.json.
C6_NoPartialFailure ==
    \A t \in Threads :
        (req[t].kind = "record" /\ req[t].risk = "HIGH" /\ Finished(req[t]))
            => (AlertWritten(t) <=> ReadingPersisted(t))

\* C7: save is atomic for the process: a load made while another request is
\* between opening patients.json for writing and closing it returns a
\* complete mapping and raises no decode error.
C7_SaveAtomic ==
    [][\A t \in Threads :
          (/\ req[t].pc = "load" /\ req'[t].pc # "load"
           /\ \E s \in Threads \ {t} : req[s].pc = "save_write")
             => req'[t].err # "JSONDecodeError"]_vars

\* C8: a successful record-vitals for an existing patient appends exactly one
\* alert line, naming the patient and the doctor stored for the patient, when
\* the risk is HIGH and none otherwise; earlier lines stay as they are.
C8_AlertOnlyOnHigh ==
    [][(Served("record") /\ req'[1].pc = "done") =>
         LET n == req'[1].name
             f == req'[1].form
         IN  IF assess_risk(f.bp_sys, f.bp_dia, f.pulse) = "HIGH"
             THEN /\ Len(alerts') = Len(alerts) + 1
                  /\ SubSeq(alerts', 1, Len(alerts)) = alerts
                  /\ alerts'[Len(alerts')][2] = n
                  /\ alerts'[Len(alerts')][4] = file.doc[n].doctor
             ELSE alerts' = alerts]_vars

\* C8 witness: a second HIGH reading was recorded, after an earlier alert.
C8_Witness ==
    /\ req[1].kind = "record" /\ req[1].pc = "done" /\ req[1].risk = "HIGH"
    /\ Len(alerts) = 2

AllDocs ==
    {req[t].patients : t \in Threads} \cup (IF file.kind = "doc" THEN {file.doc} ELSE {})

\* C9: every stored reading carries the risk assess_risk gives for its own
\* bp_sys, bp_dia and pulse, in every reachable state.
C9_StoredRiskIsAssessed ==
    \A doc \in AllDocs : \A n \in DOMAIN doc : \A i \in 1..Len(doc[n].vitals) :
        LET v == doc[n].vitals[i]
        IN  v.risk = assess_risk(v.bp_sys, v.bp_dia, v.pulse)

\* C9 witness: a MEDIUM reading is stored and a later reading followed it.
C9_Witness ==
    /\ file.kind = "doc"
    /\ \E n \in DOMAIN file.doc :
          /\ Len(file.doc[n].vitals) = 2
          /\ file.doc[n].vitals[1].risk = "MEDIUM"
          /\ file.doc[n].vitals[2].risk = "HIGH"

\* C10: without interleaving, record-vitals changes only the vitals of its
\* patient (names, other records and the patient's other fields stay), and
\* add-patient changes only the record under the added name and never the
\* alert log.
C10_Frame ==
    [][/\ (Served("record") /\ req'[1].pc = "done") =>
             LET n == req'[1].name
             IN  /\ StoredNames(file') = StoredNames(file)
                 /\ \A m \in StoredNames(file) \ {n} : file'.doc[m] = file.doc[m]
                 /\ [file'.doc[n] EXCEPT !.vitals = << >>]
                       = [file.doc[n] EXCEPT !.vitals = << >>]
       /\ (Served("record") /\ req'[1].pc = "failed") => file' = file
       /\ Served("add") =>
             LET n == req'[1].name
             IN  /\ StoredNames(file') = StoredNames(file) \cup {n}
                 /\ \A m \in StoredNames(file) \ {n} : file'.doc[m] = file.doc[m]
                 /\ alerts' = alerts]_vars

\* C10 witness: vitals were recorded while two patients are stored.
C10_Witness ==
    /\ req[1].kind = "record" /\ req[1].pc = "done"
    /\ Cardinality(StoredNames(file)) = 2

====
